---- MODULE Spec2Model ----
(***************************************************************************)
(* Model of the Stream Deck host library (src/src/lib.rs): the pending     *)
(* image cache behind its RwLock, the chunked image transfer               *)
(* (write_image_data_reports), the facade operations that drive it, and    *)
(* the DeviceStateReader that turns input snapshots into events.           *)
(*                                                                         *)
(* An image payload is the pair (tag, len): its i-th byte (0-based) is     *)
(* ByteAt(image, i).  A report written to the transport is the record      *)
(* [header, image, from, len, pad]: the header bytes, the slice            *)
(* image_data[from .. from+len) that follows them, and the number of zero  *)
(* bytes that pad it; ReportBytes gives its bytes.                         *)
(***************************************************************************)
EXTENDS Integers, Sequences, FiniteSets, TLC

VARIABLES
    kind,         \* StreamDeck.kind
    image_cache,  \* StreamDeck.image_cache: sequence of [key, image_data]
    pc,           \* per thread: where it stands in the call it is running
    op,           \* per thread: the facade call it runs (or ran last)
    idx,          \* per thread: iterator position of flush / clear_all_button_images
    xfer,         \* per thread: locals of write_image_data_reports
    ret,          \* per thread: result of the last call that returned
    written,      \* per thread: reports written to the transport by its current (or last) call
    buttons,      \* DeviceState.buttons
    encoders,     \* DeviceState.encoders
    input,        \* what read_input gave the last DeviceStateReader.read
    updates,      \* the events the last DeviceStateReader.read returned
    read_result,  \* how the last DeviceStateReader.read ended
    reads,        \* parity of the number of reads made
    feature,      \* the last set_brightness call: its argument, the feature report, the result
    header_call,  \* the last call of send_image's header closure: its arguments, the header
    pending,      \* per thread: the input its read got from read_input and has not compared yet
    held_buttons, \* history: button indices whose last reported event was a Down
    held_encoders \* history: encoder indices whose last reported event was a Down

vars == <<kind, image_cache, pc, op, idx, xfer, ret, written,
          buttons, encoders, input, updates, read_result, reads, feature,
          header_call, pending, held_buttons, held_encoders>>
imageVars == <<image_cache, pc, op, idx, xfer, ret, written>>
readerVars == <<buttons, encoders, input, updates, read_result, reads>>
sharedReaderVars == <<pending, held_buttons, held_encoders>>

(***************************************************************************)
(* Bounds of the model.                                                    *)
(***************************************************************************)
MaxCache == 3        \* entries the cache may hold (the Vec is unbounded)
MaxReports == 8      \* reports one call may write before the model stops following it
MaxConcCache == 2    \* entries the cache may hold when two threads share it
MaxChunks == 3       \* payload lengths reach MaxChunks full reports and one byte more

Threads == {1, 2}

(***************************************************************************)
(* Device kinds.  MiniMk2 and MiniMk2Module take the same branch as Mini   *)
(* everywhere in lib.rs; every other kind not named in lib.rs takes the    *)
(* `_` branch, represented here by Mk2 (visual) and Pedal (not visual).    *)
(***************************************************************************)
Kinds == {"Original", "Mini", "Mk2", "Pedal", "Plus", "Neo"}

IsLegacySmall(k) == k \in {"Mini", "MiniMk2", "MiniMk2Module"}

key_count(k) ==
    CASE k = "Original" -> 15
      [] IsLegacySmall(k) -> 6
      [] k = "Pedal" -> 3
      [] k \in {"Plus", "Neo"} -> 8
      [] OTHER -> 15

column_count(k) ==
    CASE k = "Original" -> 5
      [] IsLegacySmall(k) -> 3
      [] k = "Pedal" -> 3
      [] k \in {"Plus", "Neo"} -> 4
      [] OTHER -> 5

touchpoint_count(k) == IF k = "Neo" THEN 2 ELSE 0

encoder_count(k) == IF k = "Plus" THEN 4 ELSE 0

is_visual(k) == k # "Pedal"

flip_key_index(k, key) ==
    LET col == key % column_count(k)
    IN  (key - col) + ((column_count(k) - 1) - col)

\* The blank image of a kind: a 72x72 or 80x80 BMP on the legacy kinds, a
\* small JPEG elsewhere.
blank_image(k) ==
    [tag |-> 0,
     len |-> CASE k = "Original" -> 15606
               [] IsLegacySmall(k) -> 19254
               [] OTHER -> 700]

(***************************************************************************)
(* Bytes.                                                                  *)
(***************************************************************************)
ByteAt(image, i) == (image.tag * 31 + i * 7 + (i \div 256)) % 256

ImageData(image) == [i \in 1..image.len |-> ByteAt(image, i - 1)]

Zeros(n) == [i \in 1..n |-> 0]

Flag(b) == IF b THEN 1 ELSE 0

Min(a, b) == IF a < b THEN a ELSE b

(***************************************************************************)
(* WriteImageParameters and the report headers.                            *)
(***************************************************************************)
for_key(k, image_data_len) ==
    LET image_report_length == IF k = "Original" THEN 8191 ELSE 1024
        image_report_header_length ==
            IF k = "Original" \/ IsLegacySmall(k) THEN 16 ELSE 8
    IN  [image_report_length |-> image_report_length,
         image_report_payload_length |->
            IF k = "Original" THEN image_data_len \div 2
            ELSE image_report_length - image_report_header_length]

lcd_parameters == [image_report_length |-> 1024, image_report_payload_length |-> 1024 - 16]

lcd_fill_neo_parameters == [image_report_length |-> 1024, image_report_payload_length |-> 1024 - 8]

lcd_strip_size == [w |-> 800, h |-> 100]

u8(n) == n % 256

Lo(n) == n % 256

Hi(n) == (n \div 256) % 256

\* Mutant of key_header: the legacy-small page is numbered from 1, as on the Original.
key_header_one_based(k, key, page_number, this_length, last_package) ==
    CASE k = "Original" \/ IsLegacySmall(k) ->
            <<2, 1, u8(page_number + 1), 0, Flag(last_package), key + 1>> \o Zeros(10)
      [] OTHER ->
            <<2, 7, key, Flag(last_package), Lo(this_length), Hi(this_length),
              Lo(page_number), Hi(page_number)>>

\* The closure send_image hands to write_image_data_reports.
key_header(k, key, page_number, this_length, last_package) ==
    CASE k = "Original" ->
            <<2, 1, u8(page_number + 1), 0, Flag(last_package), key + 1>> \o Zeros(10)
      [] IsLegacySmall(k) ->
            <<2, 1, u8(page_number), 0, Flag(last_package), key + 1>> \o Zeros(10)
      [] OTHER ->
            <<2, 7, key, Flag(last_package), Lo(this_length), Hi(this_length),
              Lo(page_number), Hi(page_number)>>

\* The closure of write_lcd, and of write_lcd_fill on Plus (x = y = 0, the strip's size).
lcd_header(x, y, w, h, page_number, this_length, last_package) ==
    <<2, 12, Lo(x), Hi(x), Lo(y), Hi(y), Lo(w), Hi(w), Lo(h), Hi(h),
      Flag(last_package), Lo(page_number), Hi(page_number),
      Lo(this_length), Hi(this_length), 0>>

\* The closure of write_lcd_fill on Neo.
lcd_fill_neo_header(page_number, this_length, last_package) ==
    <<2, 11, 0, Flag(last_package), Lo(this_length), Hi(this_length),
      Lo(page_number), Hi(page_number)>>

header_fn(x, page_number, this_length, last_package) ==
    CASE x.hdr = "key" -> key_header(kind, x.key, page_number, this_length, last_package)
      [] x.hdr = "lcd" -> lcd_header(x.x, x.y, x.w, x.h, page_number, this_length, last_package)
      [] OTHER -> lcd_fill_neo_header(page_number, this_length, last_package)

NoXfer ==
    [hdr |-> "none", key |-> 0, x |-> 0, y |-> 0, w |-> 0, h |-> 0,
     image |-> [tag |-> 0, len |-> 0],
     image_report_length |-> 0, image_report_payload_length |-> 0,
     page_number |-> 0, bytes_remaining |-> 0]

\* The locals of write_image_data_reports on entry.
BeginXfer(hdr, key, x, y, w, h, image, parameters) ==
    [hdr |-> hdr, key |-> key, x |-> x, y |-> y, w |-> w, h |-> h,
     image |-> image,
     image_report_length |-> parameters.image_report_length,
     image_report_payload_length |-> parameters.image_report_payload_length,
     page_number |-> 0, bytes_remaining |-> image.len]

\* Mutant of this_length: one byte short of the payload capacity.
this_length_short(x) == Min(x.bytes_remaining, x.image_report_payload_length - 1)

\* One pass of the loop body, up to the report handed to write_data.
this_length(x) == Min(x.bytes_remaining, x.image_report_payload_length)

bytes_sent(x) == x.page_number * x.image_report_payload_length

last_package(x) == this_length(x) = x.bytes_remaining

BuildReport(x) ==
    LET header == header_fn(x, x.page_number, this_length(x), last_package(x))
    IN  [header |-> header, image |-> x.image, from |-> bytes_sent(x),
         len |-> this_length(x),
         pad |-> x.image_report_length - (Len(header) + this_length(x))]

\* image_report_length - buf.len() is a usize subtraction: it cannot go below 0.
PaddingUnderflows(x) ==
    Len(header_fn(x, x.page_number, this_length(x), last_package(x))) + this_length(x)
        > x.image_report_length

AdvanceXfer(x) ==
    [x EXCEPT !.bytes_remaining = x.bytes_remaining - this_length(x),
              !.page_number = x.page_number + 1]

Payload(r) == [i \in 1..r.len |-> ByteAt(r.image, r.from + i - 1)]

ReportBytes(r) == r.header \o Payload(r) \o Zeros(r.pad)

(***************************************************************************)
(* Inputs the calls are made with.                                         *)
(***************************************************************************)
Image(tag, len) == [tag |-> tag, len |-> len]

\* Key arguments: two keys every kind has, and the first key no kind has.
KeyInputs == {0, 2, key_count(kind)}

\* Key arguments of the two threads that share the cache.
ConcKeys == {0, 2}

\* Images for the cache: two one-report images and one that needs more.
CacheImages == {Image(1, 2), Image(2, 1017)}

\* Payload lengths around every multiple of a payload capacity, the short
\* ones, and the longest ones the legacy-large report can hold.
PayloadLens ==
    (0..7)
    \cup {k * c + d : k \in 1..MaxChunks, c \in {1024 - 16, 1024 - 8}, d \in {-1, 0, 1}}
    \cup {15606, 2 * (8191 - 16) - 1, 2 * (8191 - 16), 2 * (8191 - 16) + 1, 2 * (8191 - 16) + 2}

ChunkImages == {Image(1, n) : n \in PayloadLens}

\* Screen payloads of one and of two reports.
ScreenImages == {Image(3, 5), Image(3, 1017)}

LcdOrigins == {<<0, 0>>, <<300, 10>>}

(***************************************************************************)
(* The RwLock around image_cache.  flush holds a read guard from the start *)
(* of its for loop to the end of it; push and clear take the write guard.  *)
(***************************************************************************)
ReadLocked(t) == op[t] = "flush" /\ pc[t] \in {"flush_iter", "xfer"}

NoReader == \A u \in Threads : ~ReadLocked(u)

\* A call returns: its locals are gone.
Return(t, r) ==
    /\ pc' = [pc EXCEPT ![t] = "idle"]
    /\ ret' = [ret EXCEPT ![t] = r]
    /\ xfer' = [xfer EXCEPT ![t] = NoXfer]
    /\ idx' = [idx EXCEPT ![t] = 0]

Call(t, name) ==
    /\ pc[t] = "idle"
    /\ op' = [op EXCEPT ![t] = name]
    /\ written' = [written EXCEPT ![t] = <<>>]

\* write_image_data_reports is entered with these locals.
EnterXfer(t, x) ==
    /\ pc' = [pc EXCEPT ![t] = "xfer"]
    /\ xfer' = [xfer EXCEPT ![t] = x]
    /\ UNCHANGED <<ret, idx>>

\* Mutant of send_image: the key and the kind are not checked.
send_image_unchecked(t, key, image_data) ==
    EnterXfer(t, BeginXfer("key",
                           IF kind = "Original" THEN flip_key_index(kind, key) ELSE key,
                           0, 0, 0, 0, image_data, for_key(kind, image_data.len)))

\* send_image up to its call of write_image_data_reports.
send_image(t, key, image_data) ==
    IF key >= key_count(kind)
    THEN Return(t, "InvalidKeyIndex")
    ELSE IF ~is_visual(kind)
    THEN Return(t, "NoScreen")
    ELSE EnterXfer(t, BeginXfer("key",
                         IF kind = "Original" THEN flip_key_index(kind, key) ELSE key,
                         0, 0, 0, 0, image_data, for_key(kind, image_data.len)))

\* The header closure of send_image called alone, for a key send_image lets
\* through, at a page and a chunk length the loop may have reached.
send_image_header(key, page, len, last) ==
    /\ key < key_count(kind)
    /\ is_visual(kind)
    /\ header_call' =
          [key |-> key, page_number |-> page, this_length |-> len, last_package |-> last,
           header |-> key_header(kind,
                                 IF kind = "Original" THEN flip_key_index(kind, key) ELSE key,
                                 page, len, last)]
    /\ UNCHANGED <<kind, feature, sharedReaderVars, imageVars, readerVars>>

\* Mutant of write_image: the new entry replaces the entries queued for its key.
write_image_replacing(t, key, image_data, cap) ==
    /\ Call(t, "write_image")
    /\ NoReader
    /\ Len(image_cache) < cap
    /\ image_cache' = Append(SelectSeq(image_cache, LAMBDA e : e.key # key),
                             [key |-> key, image_data |-> image_data])
    /\ Return(t, "Ok")
    /\ UNCHANGED <<kind, feature, header_call, sharedReaderVars, readerVars>>

write_image(t, key, image_data, cap) ==
    /\ Call(t, "write_image")
    /\ NoReader
    /\ Len(image_cache) < cap
    /\ image_cache' = Append(image_cache, [key |-> key, image_data |-> image_data])
    /\ Return(t, "Ok")
    /\ UNCHANGED <<kind, feature, header_call, sharedReaderVars, readerVars>>

\* flush, its first statement: the cache is read under a guard that is dropped at once.
flush(t) ==
    /\ Call(t, "flush")
    /\ IF image_cache = <<>>
       THEN Return(t, "Ok")
       ELSE pc' = [pc EXCEPT ![t] = "flush_lock"] /\ UNCHANGED <<ret, xfer, idx>>
    /\ UNCHANGED <<kind, feature, header_call, sharedReaderVars, image_cache, readerVars>>

\* flush takes the read guard its for loop iterates under.
flush_lock(t) ==
    /\ pc[t] = "flush_lock"
    /\ pc' = [pc EXCEPT ![t] = "flush_iter"]
    /\ idx' = [idx EXCEPT ![t] = 1]
    /\ UNCHANGED <<kind, feature, header_call, sharedReaderVars, image_cache, op, xfer, ret, written, readerVars>>

\* Mutant of flush_iter: the entries are taken from the tail of the cache.
flush_iter_reversed(t) ==
    /\ pc[t] = "flush_iter"
    /\ IF idx[t] > Len(image_cache)
       THEN pc' = [pc EXCEPT ![t] = "flush_clear"] /\ UNCHANGED <<xfer, ret, idx>>
       ELSE send_image(t, image_cache[Len(image_cache) + 1 - idx[t]].key,
                       image_cache[Len(image_cache) + 1 - idx[t]].image_data)
    /\ UNCHANGED <<kind, feature, header_call, sharedReaderVars, image_cache, op, written, readerVars>>

\* One turn of the for loop: the next entry goes to send_image, or the loop ends.
flush_iter(t) ==
    /\ pc[t] = "flush_iter"
    /\ IF idx[t] > Len(image_cache)
       THEN pc' = [pc EXCEPT ![t] = "flush_clear"] /\ UNCHANGED <<xfer, ret, idx>>
       ELSE send_image(t, image_cache[idx[t]].key, image_cache[idx[t]].image_data)
    /\ UNCHANGED <<kind, feature, header_call, sharedReaderVars, image_cache, op, written, readerVars>>

\* Mutant of flush_clear: flush returns without clearing the cache.
flush_clear_skipped(t) ==
    /\ pc[t] = "flush_clear"
    /\ NoReader
    /\ image_cache' = image_cache
    /\ Return(t, "Ok")
    /\ UNCHANGED <<kind, feature, header_call, sharedReaderVars, op, written, readerVars>>

\* flush, its last statement: the write guard is taken and the cache cleared.
flush_clear(t) ==
    /\ pc[t] = "flush_clear"
    /\ NoReader
    /\ image_cache' = <<>>
    /\ Return(t, "Ok")
    /\ UNCHANGED <<kind, feature, header_call, sharedReaderVars, op, written, readerVars>>

clear_button_image(t, key) ==
    /\ Call(t, "clear_button_image")
    /\ send_image(t, key, blank_image(kind))
    /\ UNCHANGED <<kind, feature, header_call, sharedReaderVars, image_cache, readerVars>>

clear_all_button_images(t) ==
    /\ Call(t, "clear_all_button_images")
    /\ pc' = [pc EXCEPT ![t] = "clear_iter"]
    /\ idx' = [idx EXCEPT ![t] = 0]
    /\ UNCHANGED <<kind, feature, header_call, sharedReaderVars, image_cache, xfer, ret, readerVars>>

\* One turn of `for i in 0..key_count`.
clear_iter(t) ==
    /\ pc[t] = "clear_iter"
    /\ IF idx[t] >= key_count(kind)
       THEN Return(t, "Ok")
       ELSE send_image(t, idx[t], blank_image(kind))
    /\ UNCHANGED <<kind, feature, header_call, sharedReaderVars, image_cache, op, written, readerVars>>

\* Mutant of write_lcd: the Neo is taken to have the Plus's strip.
write_lcd_on_neo(t, x, y, rect) ==
    /\ Call(t, "write_lcd")
    /\ IF kind \notin {"Plus", "Neo"}
       THEN Return(t, "UnsupportedOperation")
       ELSE EnterXfer(t, BeginXfer("lcd", 0, x, y, rect.w, rect.h, rect.data, lcd_parameters))
    /\ UNCHANGED <<kind, feature, header_call, sharedReaderVars, image_cache, readerVars>>

write_lcd(t, x, y, rect) ==
    /\ Call(t, "write_lcd")
    /\ IF kind # "Plus"
       THEN Return(t, "UnsupportedOperation")
       ELSE EnterXfer(t, BeginXfer("lcd", 0, x, y, rect.w, rect.h, rect.data, lcd_parameters))
    /\ UNCHANGED <<kind, feature, header_call, sharedReaderVars, image_cache, readerVars>>

write_lcd_fill(t, image_data) ==
    /\ Call(t, "write_lcd_fill")
    /\ IF kind = "Neo"
       THEN EnterXfer(t, BeginXfer("fill_neo", 0, 0, 0, 0, 0, image_data,
                                   lcd_fill_neo_parameters))
       ELSE IF kind = "Plus"
       THEN EnterXfer(t, BeginXfer("lcd", 0, 0, 0, lcd_strip_size.w, lcd_strip_size.h,
                                   image_data, lcd_parameters))
       ELSE Return(t, "UnsupportedOperation")
    /\ UNCHANGED <<kind, feature, header_call, sharedReaderVars, image_cache, readerVars>>

(***************************************************************************)
(* write_image_data_reports.                                               *)
(***************************************************************************)
\* One pass of the while loop whose write_data succeeds; the pass panics
\* instead when header and slice are longer than the report.
write_report(t) ==
    /\ pc[t] = "xfer"
    /\ xfer[t].bytes_remaining > 0
    /\ Len(written[t]) < MaxReports
    /\ IF PaddingUnderflows(xfer[t])
       THEN /\ pc' = [pc EXCEPT ![t] = "panicked"]
            /\ ret' = [ret EXCEPT ![t] = "panic"]
            /\ UNCHANGED <<xfer, written>>
       ELSE /\ written' = [written EXCEPT ![t] = Append(@, BuildReport(xfer[t]))]
            /\ xfer' = [xfer EXCEPT ![t] = AdvanceXfer(@)]
            /\ UNCHANGED <<pc, ret>>
    /\ UNCHANGED <<kind, feature, header_call, sharedReaderVars, image_cache, op, idx, readerVars>>

\* Mutant of write_report_fails: a failing flush drops the entries it had sent.
write_report_fails_dropping_sent(t) ==
    /\ pc[t] = "xfer"
    /\ xfer[t].bytes_remaining > 0
    /\ ~PaddingUnderflows(xfer[t])
    /\ Return(t, "HidError")
    /\ image_cache' = IF op[t] = "flush"
                      THEN SubSeq(image_cache, idx[t], Len(image_cache))
                      ELSE image_cache
    /\ UNCHANGED <<kind, feature, header_call, sharedReaderVars, op, written, readerVars>>

\* One pass of the while loop whose write_data fails: `?` returns the error
\* through every caller.
write_report_fails(t) ==
    /\ pc[t] = "xfer"
    /\ xfer[t].bytes_remaining > 0
    /\ ~PaddingUnderflows(xfer[t])
    /\ Return(t, "HidError")
    /\ UNCHANGED <<kind, feature, header_call, sharedReaderVars, image_cache, op, written, readerVars>>

\* The while loop ends and write_image_data_reports returns Ok to its caller.
xfer_done(t) ==
    /\ pc[t] = "xfer"
    /\ xfer[t].bytes_remaining = 0
    /\ IF op[t] = "flush"
       THEN /\ pc' = [pc EXCEPT ![t] = "flush_iter"]
            /\ idx' = [idx EXCEPT ![t] = @ + 1]
            /\ xfer' = [xfer EXCEPT ![t] = NoXfer]
            /\ UNCHANGED ret
       ELSE IF op[t] = "clear_all_button_images"
       THEN /\ pc' = [pc EXCEPT ![t] = "clear_iter"]
            /\ idx' = [idx EXCEPT ![t] = @ + 1]
            /\ xfer' = [xfer EXCEPT ![t] = NoXfer]
            /\ UNCHANGED ret
       ELSE Return(t, "Ok")
    /\ UNCHANGED <<kind, feature, header_call, sharedReaderVars, image_cache, op, written, readerVars>>


(***************************************************************************)
(* read_input: one raw report decoded into a StreamDeckInput, the record   *)
(* [type, v].  A raw report is the sequence of its bytes.                  *)
(***************************************************************************)
NoInput == [type |-> "none", v |-> <<>>]

Err(e) == [type |-> e, v |-> <<>>]

IsErr(i) == i.type \in {"BadData", "HidError"}

\* The length read_input asks read_data for.
input_report_length(k) ==
    IF k = "Plus" THEN (IF 14 > 5 + encoder_count(k) THEN 14 ELSE 5 + encoder_count(k))
    ELSE IF k = "Original" \/ IsLegacySmall(k) THEN 1 + key_count(k)
    ELSE 4 + key_count(k) + touchpoint_count(k)

Drop(data, n) == SubSeq(data, n + 1, Len(data))

NonZero(bytes) == [i \in 1..Len(bytes) |-> bytes[i] # 0]

u16_from_le_bytes(lo, hi) == lo + 256 * hi

i8_from_le_bytes(b) == IF b >= 128 THEN b - 256 ELSE b

read_button_states(k, states) ==
    IF states[1] = 0 THEN <<>>
    ELSE IF k = "Original"
    THEN [i \in 1..key_count(k) |-> states[flip_key_index(k, i - 1) + 2] # 0]
    ELSE IF IsLegacySmall(k) THEN NonZero(Drop(states, 1))
    ELSE NonZero(Drop(states, 4))

read_lcd_input(data) ==
    LET start_x == u16_from_le_bytes(data[7], data[8])
        start_y == u16_from_le_bytes(data[9], data[10])
    IN  CASE data[5] = 1 -> [type |-> "TouchScreenPress", v |-> <<start_x, start_y>>]
          [] data[5] = 2 -> [type |-> "TouchScreenLongPress", v |-> <<start_x, start_y>>]
          [] data[5] = 3 ->
                [type |-> "TouchScreenSwipe",
                 v |-> <<start_x, start_y, u16_from_le_bytes(data[11], data[12]),
                         u16_from_le_bytes(data[13], data[14])>>]
          [] OTHER -> Err("BadData")

read_encoder_input(k, data) ==
    LET bytes == SubSeq(data, 6, 5 + encoder_count(k))
    IN  CASE data[5] = 0 -> [type |-> "EncoderStateChange", v |-> NonZero(bytes)]
          [] data[5] = 1 ->
                [type |-> "EncoderTwist",
                 v |-> [i \in 1..Len(bytes) |-> i8_from_le_bytes(bytes[i])]]
          [] OTHER -> Err("BadData")

\* Mutant of read_input: a report whose first byte is zero is decoded like any other.
read_input_no_nodata(k, data) ==
    IF k = "Plus"
    THEN CASE data[2] = 0 -> [type |-> "ButtonStateChange", v |-> read_button_states(k, data)]
           [] data[2] = 2 -> read_lcd_input(data)
           [] data[2] = 3 -> read_encoder_input(k, data)
           [] OTHER -> Err("BadData")
    ELSE [type |-> "ButtonStateChange", v |-> read_button_states(k, data)]

read_input(k, data) ==
    IF data[1] = 0 THEN [type |-> "NoData", v |-> <<>>]
    ELSE IF k = "Plus"
    THEN CASE data[2] = 0 -> [type |-> "ButtonStateChange", v |-> read_button_states(k, data)]
           [] data[2] = 2 -> read_lcd_input(data)
           [] data[2] = 3 -> read_encoder_input(k, data)
           [] OTHER -> Err("BadData")
    ELSE [type |-> "ButtonStateChange", v |-> read_button_states(k, data)]

(***************************************************************************)
(* DeviceStateReader.read.  An event is a tuple: its name, then its        *)
(* fields.                                                                 *)
(***************************************************************************)
\* zip(a, b).enumerate(): the indices both vectors have.
ZipLen(a, b) == Min(Len(a), Len(b))

RECURSIVE button_updates_from(_, _, _, _)
button_updates_from(kc, their, mine, i) ==
    IF i > ZipLen(their, mine) THEN <<>>
    ELSE (IF their[i] # mine[i]
          THEN IF i - 1 < kc
               THEN IF their[i] THEN << <<"ButtonDown", i - 1>> >>
                                ELSE << <<"ButtonUp", i - 1>> >>
               ELSE IF their[i] THEN << <<"TouchPointDown", u8(i - 1) - kc>> >>
                                ELSE << <<"TouchPointUp", u8(i - 1) - kc>> >>
          ELSE <<>>)
         \o button_updates_from(kc, their, mine, i + 1)

\* Mutant of button_updates: a pressed button is reported whether or not it was pressed before.
button_updates_level(kc, their, mine) ==
    button_updates_from(kc, their, [i \in 1..Len(mine) |-> mine[i] /\ ~their[i]], 1)

\* Mutant of button_updates: the first index after the keys still counts as a key.
button_updates_inclusive(kc, their, mine) == button_updates_from(kc + 1, their, mine, 1)

button_updates(kc, their, mine) == button_updates_from(kc, their, mine, 1)

RECURSIVE encoder_updates_from(_, _, _)
encoder_updates_from(their, mine, i) ==
    IF i > ZipLen(their, mine) THEN <<>>
    ELSE (IF their[i] # mine[i]
          THEN IF their[i] THEN << <<"EncoderDown", i - 1>> >>
                           ELSE << <<"EncoderUp", i - 1>> >>
          ELSE <<>>)
         \o encoder_updates_from(their, mine, i + 1)

encoder_updates(their, mine) == encoder_updates_from(their, mine, 1)

RECURSIVE twist_updates_from(_, _)
twist_updates_from(twist, i) ==
    IF i > Len(twist) THEN <<>>
    ELSE (IF twist[i] # 0 THEN << <<"EncoderTwist", i - 1, twist[i]>> >> ELSE <<>>)
         \o twist_updates_from(twist, i + 1)

twist_updates(twist) == twist_updates_from(twist, 1)

\* Mutant of read: a button snapshot that fired no event is not stored.
read_storing_on_change(data) ==
    LET got == read_input(kind, data)
    IN  /\ input' = got
        /\ reads' = 1 - reads
        /\ IF IsErr(got)
           THEN /\ read_result' = got.type
                /\ updates' = <<>>
                /\ UNCHANGED <<buttons, encoders>>
           ELSE /\ read_result' = "Ok"
                /\ updates' =
                      CASE got.type = "ButtonStateChange" ->
                              button_updates(key_count(kind), got.v, buttons)
                        [] got.type = "EncoderStateChange" -> encoder_updates(got.v, encoders)
                        [] got.type = "EncoderTwist" -> twist_updates(got.v)
                        [] got.type = "TouchScreenPress" ->
                              << <<"TouchScreenPress", got.v[1], got.v[2]>> >>
                        [] got.type = "TouchScreenLongPress" ->
                              << <<"TouchScreenLongPress", got.v[1], got.v[2]>> >>
                        [] got.type = "TouchScreenSwipe" ->
                              << <<"TouchScreenSwipe", <<got.v[1], got.v[2]>>,
                                   <<got.v[3], got.v[4]>> >> >>
                        [] OTHER -> <<>>
                /\ buttons' = IF got.type = "ButtonStateChange" /\ updates' # <<>>
                              THEN got.v ELSE buttons
                /\ encoders' = IF got.type = "EncoderStateChange" THEN got.v ELSE encoders
        /\ UNCHANGED <<kind, feature, header_call, sharedReaderVars, imageVars>>

\* read on a report the transport delivered within the timeout, or on the
\* all-zero buffer left by a timeout.
read(data) ==
    LET got == read_input(kind, data)
    IN  /\ input' = got
        /\ reads' = 1 - reads
        /\ IF IsErr(got)
           THEN /\ read_result' = got.type
                /\ updates' = <<>>
                /\ UNCHANGED <<buttons, encoders>>
           ELSE /\ read_result' = "Ok"
                /\ updates' =
                      CASE got.type = "ButtonStateChange" ->
                              button_updates(key_count(kind), got.v, buttons)
                        [] got.type = "EncoderStateChange" -> encoder_updates(got.v, encoders)
                        [] got.type = "EncoderTwist" -> twist_updates(got.v)
                        [] got.type = "TouchScreenPress" ->
                              << <<"TouchScreenPress", got.v[1], got.v[2]>> >>
                        [] got.type = "TouchScreenLongPress" ->
                              << <<"TouchScreenLongPress", got.v[1], got.v[2]>> >>
                        [] got.type = "TouchScreenSwipe" ->
                              << <<"TouchScreenSwipe", <<got.v[1], got.v[2]>>,
                                   <<got.v[3], got.v[4]>> >> >>
                        [] OTHER -> <<>>
                /\ buttons' = IF got.type = "ButtonStateChange" THEN got.v ELSE buttons
                /\ encoders' = IF got.type = "EncoderStateChange" THEN got.v ELSE encoders
        /\ UNCHANGED <<kind, feature, header_call, sharedReaderVars, imageVars>>

\* read when the transport read fails: `?` returns before the state is locked.
read_fails ==
    /\ input' = Err("HidError")
    /\ reads' = 1 - reads
    /\ read_result' = "HidError"
    /\ updates' = <<>>
    /\ UNCHANGED <<kind, feature, header_call, sharedReaderVars, imageVars, buttons, encoders>>

(***************************************************************************)
(* Raw reports the device may deliver.                                     *)
(***************************************************************************)
\* Bytes of the button part of a report that may be non-zero: the first two,
\* the last key, and what follows the keys.
PressablePositions(k) ==
    LET n == input_report_length(k) - (IF k = "Original" \/ IsLegacySmall(k) THEN 1 ELSE 4)
    IN  {0, 1, key_count(k) - 1, key_count(k), n - 1} \cap (0..(n - 1))

PressedBytes == {1, 255}

ButtonBytes(n, pressed, b) == [i \in 1..n |-> IF (i - 1) \in pressed THEN b ELSE 0]

ButtonReports(k) ==
    LET head == IF k = "Original" \/ IsLegacySmall(k) THEN <<1>> ELSE <<1, 0, 0, 0>>
    IN  {head \o ButtonBytes(input_report_length(k) - Len(head), pressed, b) :
            pressed \in SUBSET PressablePositions(k), b \in PressedBytes}

\* Encoder reports of Plus: presses, twists, and an unknown sub-type.
EncoderReports ==
    {<<1, 3, 0, 0, sub>> \o e \o Zeros(14 - 9) :
        sub \in {0, 1, 2},
        e \in {<<0, 0, 0, 0>>, <<1, 0, 0, 0>>, <<0, 0, 0, 255>>, <<1, 0, 0, 1>>, <<0, 255, 2, 0>>}}

\* Touch screen reports of Plus: the three gestures and an unknown one.
LcdReports ==
    {<<1, 2, 0, 0, g, 0, 44, 1, 50, 0, 188, 2, 60, 0>> : g \in {1, 2, 3, 4}}

RawReports(k) ==
    {Zeros(input_report_length(k)), <<0>> \o Zeros(input_report_length(k) - 2) \o <<1>>}
    \cup ButtonReports(k)
    \cup (IF k = "Plus"
          THEN EncoderReports \cup LcdReports
                 \cup {<<1, 1>> \o Zeros(12), <<1, 4>> \o Zeros(12)}
          ELSE {})

(***************************************************************************)
(* DeviceStateReader.read called by several threads on one reader: the     *)
(* input is read first, the state is locked and compared afterwards.       *)
(***************************************************************************)
\* The events read pushes for an input, given the stored vectors.
updates_for(got, my_buttons, my_encoders) ==
    CASE got.type = "ButtonStateChange" -> button_updates(key_count(kind), got.v, my_buttons)
      [] got.type = "EncoderStateChange" -> encoder_updates(got.v, my_encoders)
      [] got.type = "EncoderTwist" -> twist_updates(got.v)
      [] got.type = "TouchScreenPress" -> << <<"TouchScreenPress", got.v[1], got.v[2]>> >>
      [] got.type = "TouchScreenLongPress" ->
            << <<"TouchScreenLongPress", got.v[1], got.v[2]>> >>
      [] got.type = "TouchScreenSwipe" ->
            << <<"TouchScreenSwipe", <<got.v[1], got.v[2]>>, <<got.v[3], got.v[4]>> >> >>
      [] OTHER -> <<>>

\* The index of the stored vector an event speaks of.
event_index(e) ==
    IF e[1] \in {"TouchPointDown", "TouchPointUp"} THEN e[2] + key_count(kind) ELSE e[2]

indices_of(events, names) ==
    {event_index(events[n]) : n \in {m \in 1..Len(events) : events[m][1] \in names}}

\* read up to its `?`: read_input gave an input, or BadData and the call returns.
read_input_got(t, data) ==
    LET got == read_input(kind, data)
    IN  /\ pending[t] = NoInput
        /\ IF IsErr(got)
           THEN /\ input' = got
                /\ reads' = 1 - reads
                /\ read_result' = got.type
                /\ updates' = <<>>
                /\ UNCHANGED pending
           ELSE /\ pending' = [pending EXCEPT ![t] = got]
                /\ UNCHANGED <<input, reads, read_result, updates>>
        /\ UNCHANGED <<kind, feature, header_call, imageVars, buttons, encoders,
                       held_buttons, held_encoders>>

\* Mutant of read_locked: the snapshot is compared and not stored.
read_locked_not_storing(t) ==
    LET got == pending[t]
        events == updates_for(got, buttons, encoders)
    IN  /\ got # NoInput
        /\ pending' = [pending EXCEPT ![t] = NoInput]
        /\ input' = got
        /\ reads' = 1 - reads
        /\ read_result' = "Ok"
        /\ updates' = events
        /\ UNCHANGED <<buttons, encoders>>
        /\ held_buttons' =
              (held_buttons \ indices_of(events, {"ButtonUp", "TouchPointUp"}))
                 \cup indices_of(events, {"ButtonDown", "TouchPointDown"})
        /\ held_encoders' =
              (held_encoders \ indices_of(events, {"EncoderUp"}))
                 \cup indices_of(events, {"EncoderDown"})
        /\ UNCHANGED <<kind, feature, header_call, imageVars>>

\* read from the lock on: the input is compared with the stored vectors, the
\* events are pushed and a snapshot is stored.
read_locked(t) ==
    LET got == pending[t]
        events == updates_for(got, buttons, encoders)
    IN  /\ got # NoInput
        /\ pending' = [pending EXCEPT ![t] = NoInput]
        /\ input' = got
        /\ reads' = 1 - reads
        /\ read_result' = "Ok"
        /\ updates' = events
        /\ buttons' = IF got.type = "ButtonStateChange" THEN got.v ELSE buttons
        /\ encoders' = IF got.type = "EncoderStateChange" THEN got.v ELSE encoders
        /\ held_buttons' =
              (held_buttons \ indices_of(events, {"ButtonUp", "TouchPointUp"}))
                 \cup indices_of(events, {"ButtonDown", "TouchPointDown"})
        /\ held_encoders' =
              (held_encoders \ indices_of(events, {"EncoderUp"}))
                 \cup indices_of(events, {"EncoderDown"})
        /\ UNCHANGED <<kind, feature, header_call, imageVars>>

\* Reports for two threads reading at once: two positions pressed or not, a
\* timeout, and on the Plus three encoder snapshots, a twist and a gesture.
SharedPositions(k) ==
    LET n == input_report_length(k) - (IF k = "Original" \/ IsLegacySmall(k) THEN 1 ELSE 4)
    IN  IF key_count(k) < n THEN {0, key_count(k)} ELSE {0, key_count(k) - 1}

SharedReports(k) ==
    LET head == IF k = "Original" \/ IsLegacySmall(k) THEN <<1>> ELSE <<1, 0, 0, 0>>
    IN  {Zeros(input_report_length(k))}
        \cup {head \o ButtonBytes(input_report_length(k) - Len(head), pressed, 1) :
                 pressed \in SUBSET SharedPositions(k)}
        \cup (IF k = "Plus"
              THEN {<<1, 3, 0, 0, 0>> \o e \o Zeros(14 - 9) :
                       e \in {<<0, 0, 0, 0>>, <<1, 0, 0, 0>>, <<1, 0, 0, 1>>}}
                   \cup {<<1, 3, 0, 0, 1, 0, 255, 2, 0>> \o Zeros(14 - 9),
                         <<1, 2, 0, 0, 1, 0, 44, 1, 50, 0, 188, 2, 60, 0>>,
                         <<1, 4>> \o Zeros(12)}
              ELSE {})

(***************************************************************************)
(* Specifications.                                                         *)
(***************************************************************************)
InitImage ==
    /\ kind \in Kinds
    /\ image_cache = <<>>
    /\ pc = [t \in Threads |-> "idle"]
    /\ op = [t \in Threads |-> "none"]
    /\ idx = [t \in Threads |-> 0]
    /\ xfer = [t \in Threads |-> NoXfer]
    /\ ret = [t \in Threads |-> "none"]
    /\ written = [t \in Threads |-> <<>>]

\* get_reader: both vectors all false.
InitReader ==
    /\ buttons = [i \in 1..(key_count(kind) + touchpoint_count(kind)) |-> FALSE]
    /\ encoders = [i \in 1..encoder_count(kind) |-> FALSE]
    /\ input = NoInput
    /\ updates = <<>>
    /\ read_result = "none"
    /\ reads = 0

(***************************************************************************)
(* set_brightness.                                                         *)
(***************************************************************************)
\* Mutant of clamp: the value passes through.
clamp_none(v, lo, hi) == v

\* Ord::clamp on u8.
clamp(v, lo, hi) == IF v < lo THEN lo ELSE IF v > hi THEN hi ELSE v

\* The feature report set_brightness builds for a kind.
brightness_report(k, percent) ==
    LET p == clamp(percent, 0, 100)
    IN  IF k = "Original" \/ IsLegacySmall(k)
        THEN <<5, 85, 170, 209, 1, p>> \o Zeros(11)
        ELSE <<3, 8, p>> \o Zeros(29)

\* send_feature_report succeeds or fails with a transport error.
set_brightness(percent) ==
    /\ \E result \in {"Ok", "HidError"} :
          feature' = [percent |-> percent,
                      report |-> brightness_report(kind, percent),
                      result |-> result]
    /\ UNCHANGED <<kind, header_call, sharedReaderVars, imageVars, readerVars>>

NoFeature == [percent |-> 0, report |-> <<>>, result |-> "none"]

NoHeaderCall ==
    [key |-> 0, page_number |-> 0, this_length |-> 0, last_package |-> FALSE, header |-> <<>>]

InitSharedReader ==
    /\ pending = [t \in Threads |-> NoInput]
    /\ held_buttons = {}
    /\ held_encoders = {}

Init ==
    /\ InitImage
    /\ InitReader
    /\ feature = NoFeature
    /\ header_call = NoHeaderCall
    /\ InitSharedReader

\* The steps of flush and of a transfer once they are under way.
Step(t) ==
    \/ flush_lock(t)
    \/ flush_iter(t)
    \/ flush_clear(t)
    \/ write_report(t)
    \/ write_report_fails(t)
    \/ xfer_done(t)

\* One thread calling the facade with the cache's inputs.
Next ==
    \/ \E key \in KeyInputs, image \in CacheImages : write_image(1, key, image, MaxCache)
    \/ flush(1)
    \/ \E key \in KeyInputs : clear_button_image(1, key)
    \/ clear_all_button_images(1)
    \/ clear_iter(1)
    \/ Step(1)

Spec == Init /\ [][Next]_vars

\* One thread transferring one payload at a time, of any length in
\* PayloadLens: a key image is enqueued and flushed, or a payload is written
\* to the screen, before the next one is taken up.
NextChunk ==
    \/ \E image \in ChunkImages : write_image(1, 0, image, 1)
    \/ flush(1)
    \/ /\ image_cache = <<>>
       /\ \E o \in LcdOrigins, image \in ChunkImages :
             write_lcd(1, o[1], o[2], [w |-> 200, h |-> 100, data |-> image])
    \/ /\ image_cache = <<>>
       /\ \E image \in ChunkImages : write_lcd_fill(1, image)
    \/ Step(1)

SpecChunk == Init /\ [][NextChunk]_vars

\* One reader polling the device.
NextReader ==
    \/ \E data \in RawReports(kind) : read(data)
    \/ read_fails

SpecReader == Init /\ [][NextReader]_vars

\* Two threads enqueuing images and flushing.
NextConc ==
    \E t \in Threads :
        \/ \E key \in ConcKeys : write_image(t, key, Image(1, 2), MaxConcCache)
        \/ flush(t)
        \/ Step(t)

SpecConc == Init /\ [][NextConc]_vars

\* Brightness set to every value a u8 holds.
NextBrightness == \E percent \in 0..255 : set_brightness(percent)

SpecBrightness == Init /\ [][NextBrightness]_vars

\* Key images staged and flushed while the screen operations are called.
NextScreen ==
    \/ \E key \in ConcKeys : write_image(1, key, Image(1, 2), MaxConcCache)
    \/ flush(1)
    \/ \E o \in LcdOrigins, image \in ScreenImages :
          write_lcd(1, o[1], o[2], [w |-> 200, h |-> 100, data |-> image])
    \/ \E image \in ScreenImages : write_lcd_fill(1, image)
    \/ Step(1)

SpecScreen == Init /\ [][NextScreen]_vars

\* Key images of one and of three reports sent to every key, and the header
\* closure at the pages where its one- and two-byte fields roll over.
HeaderKeys == 0..key_count(kind)

HeaderImages == {Image(1, 3), Image(1, 2033)}

HeaderPages == {0, 1, 2, 254, 255, 256, 257, 65535, 65536}

HeaderLengths == {0, 1, 255, 256, 1008, 1016, 7803}

NextKeyHeader ==
    \/ /\ header_call = NoHeaderCall
       /\ \E key \in HeaderKeys, image \in HeaderImages : write_image(1, key, image, 1)
    \/ /\ header_call = NoHeaderCall
       /\ image_cache # <<>>
       /\ flush(1)
    \/ Step(1)
    \/ /\ header_call = NoHeaderCall
       /\ op[1] = "none"
       /\ \E key \in HeaderKeys, page \in HeaderPages, len \in HeaderLengths,
             last \in BOOLEAN :
             send_image_header(key, page, len, last)

SpecKeyHeader == Init /\ [][NextKeyHeader]_vars

\* Two threads reading from one reader.
NextSharedReader ==
    \E t \in Threads :
        \/ \E data \in SharedReports(kind) : read_input_got(t, data)
        \/ read_locked(t)

SpecSharedReader == Init /\ [][NextSharedReader]_vars

(***************************************************************************)
(* Reading a transfer off the reports a call has written.                  *)
(***************************************************************************)
\* The while loop of write_image_data_reports has run to its end.
LoopEnded(t) == pc[t] = "xfer" /\ xfer[t].bytes_remaining = 0

\* The transfer is over without a transport error: the loop ended or panicked.
TransferOver(t) == LoopEnded(t) \/ pc[t] = "panicked"

IsOriginalKeyTransfer(t) == xfer[t].hdr = "key" /\ kind = "Original"

CeilDiv(n, d) == (n + d - 1) \div d

\* Header length and report length of the wire layouts (spec section 6).
WireHeaderLen(k, hdr) ==
    CASE hdr = "key" -> IF k = "Original" \/ IsLegacySmall(k) THEN 16 ELSE 8
      [] hdr = "lcd" -> 16
      [] OTHER -> 8

WireReportLen(k, hdr) == IF hdr = "key" /\ k = "Original" THEN 8191 ELSE 1024

\* The continuation flag's place in a header of the wire layouts.
LastFlagOf(k, hdr, r) ==
    CASE hdr = "key" -> IF k = "Original" \/ IsLegacySmall(k) THEN r.header[5] ELSE r.header[4]
      [] hdr = "lcd" -> r.header[11]
      [] OTHER -> r.header[4]

RECURSIVE ConcatPayloads(_)
ConcatPayloads(reports) ==
    IF reports = <<>> THEN <<>>
    ELSE Payload(Head(reports)) \o ConcatPayloads(Tail(reports))

(***************************************************************************)
(* C1: a capacity-based transfer (a key image on any kind but Original,    *)
(* write_lcd, write_lcd_fill) of N payload bytes writes exactly            *)
(* ceil(N / P) reports, P = L - H, and every report but the last carries   *)
(* exactly P payload bytes.                                                *)
(***************************************************************************)
C1_CapacityChunking ==
    \A t \in Threads :
        (LoopEnded(t) /\ ~IsOriginalKeyTransfer(t)) =>
            LET N == xfer[t].image.len
                P == WireReportLen(kind, xfer[t].hdr) - WireHeaderLen(kind, xfer[t].hdr)
            IN  /\ Len(written[t]) = CeilDiv(N, P)
                /\ \A i \in 1..(Len(written[t]) - 1) : written[t][i].len = P

\* A capacity-based transfer that took more than MaxChunks reports, the last one partly filled.
C1_Witness ==
    \E t \in Threads :
        /\ LoopEnded(t) /\ ~IsOriginalKeyTransfer(t)
        /\ Len(written[t]) > MaxChunks
        /\ written[t][Len(written[t])].len = 1

(***************************************************************************)
(* C2: on Kind::Original a key image transfer of any payload length N > 0  *)
(* is split into exactly two reports.                                      *)
(***************************************************************************)
C2_OriginalTwoReports ==
    \A t \in Threads :
        (LoopEnded(t) /\ IsOriginalKeyTransfer(t) /\ xfer[t].image.len > 0) =>
            Len(written[t]) = 2

(***************************************************************************)
(* C3: on every kind and for every payload length, the payload slices of   *)
(* the reports of one transfer, concatenated in the order written, are the *)
(* payload.                                                                *)
(***************************************************************************)
C3_SlicesReconstructPayload ==
    \A t \in Threads :
        TransferOver(t) => ConcatPayloads(written[t]) = ImageData(xfer[t].image)

(***************************************************************************)
(* C4: in every transfer of N > 0 bytes exactly one report has last set,   *)
(* and it is the final report written.                                     *)
(***************************************************************************)
C4_LastFlagOnFinalReportOnly ==
    \A t \in Threads :
        (TransferOver(t) /\ xfer[t].image.len > 0) =>
            /\ written[t] # <<>>
            /\ \A i \in 1..Len(written[t]) :
                  LastFlagOf(kind, xfer[t].hdr, written[t][i])
                      = Flag(i = Len(written[t]))

\* What does hold of C3 and C4: they hold of every transfer whose loop ends.
CompletedTransferIsExact ==
    \A t \in Threads :
        LoopEnded(t) =>
            /\ ConcatPayloads(written[t]) = ImageData(xfer[t].image)
            /\ \A i \in 1..Len(written[t]) :
                  LastFlagOf(kind, xfer[t].hdr, written[t][i])
                      = Flag(i = Len(written[t]))

(***************************************************************************)
(* Reading key image transfers off the reports of a flush.                 *)
(***************************************************************************)
\* The key field of a key image header of the wire layouts, and the key a
\* caller's key is sent as (mirrored within its row on Original only).
KeyFieldOf(k, r) ==
    IF k = "Original" \/ IsLegacySmall(k) THEN r.header[6] - 1 ELSE r.header[3]

WireKey(k, key) ==
    IF k = "Original" THEN (key - (key % 5)) + (4 - (key % 5)) ELSE key

\* One <<key field, image>> per report that has its last flag set.
RECURSIVE Transfers(_, _)
Transfers(k, reports) ==
    IF reports = <<>> THEN <<>>
    ELSE IF LastFlagOf(k, "key", Head(reports)) = 1
         THEN <<(<<KeyFieldOf(k, Head(reports)), Head(reports).image>>)>>
                  \o Transfers(k, Tail(reports))
         ELSE Transfers(k, Tail(reports))

\* A report without the last flag is followed by a report of the same transfer.
Coherent(k, reports) ==
    \A i \in 1..Len(reports) :
        LastFlagOf(k, "key", reports[i]) = 0 =>
            /\ i < Len(reports)
            /\ KeyFieldOf(k, reports[i + 1]) = KeyFieldOf(k, reports[i])
            /\ reports[i + 1].image = reports[i].image

ExpectedTransfers(k, cache) ==
    [i \in 1..Len(cache) |-> <<WireKey(k, cache[i].key), cache[i].image_data>>]

\* A step in which thread t calls `name`.
Calls(t, name) == pc[t] = "idle" /\ op'[t] = name /\ written'[t] = <<>>

(***************************************************************************)
(* C5: a write or send of a key image with key >= key_count (write_image,  *)
(* clear_button_image, the send flush performs for a cached entry) fails   *)
(* with InvalidKeyIndex and writes no report.                              *)
(***************************************************************************)
C5_InvalidKeyRejected ==
    [][\A t \in Threads :
          /\ (/\ Calls(t, "write_image")
              /\ image_cache' # <<>>
              /\ image_cache'[Len(image_cache')].key >= key_count(kind))
                => ret'[t] = "InvalidKeyIndex"
          /\ (/\ pc[t] = "flush_iter" /\ pc'[t] # "flush_iter"
              /\ idx[t] <= Len(image_cache)
              /\ image_cache[idx[t]].key >= key_count(kind))
                => (ret'[t] = "InvalidKeyIndex" /\ written'[t] = written[t])
          /\ (Calls(t, "clear_button_image") /\ pc'[t] = "idle" /\ is_visual(kind))
                => ret'[t] = "InvalidKeyIndex"
      ]_vars

\* What does hold of C5: send_image rejects the key, from flush as from clear_button_image.
SendImageRejectsInvalidKey ==
    [][\A t \in Threads :
          /\ (/\ pc[t] = "flush_iter" /\ pc'[t] # "flush_iter"
              /\ idx[t] <= Len(image_cache)
              /\ image_cache[idx[t]].key >= key_count(kind))
                => (ret'[t] = "InvalidKeyIndex" /\ written'[t] = written[t])
          /\ (Calls(t, "clear_button_image") /\ pc'[t] = "idle" /\ is_visual(kind))
                => ret'[t] = "InvalidKeyIndex"
      ]_vars

(***************************************************************************)
(* C6: a flush sends one transfer per cached entry, in the order the       *)
(* entries were enqueued; a later entry for a key does not remove or       *)
(* replace an earlier one (keys 2, 0, 2 give three transfers, in that      *)
(* order).  Read where the for loop of flush has ended and the cache is    *)
(* not yet cleared.                                                        *)
(***************************************************************************)
C6_FlushSendsInEnqueueOrder ==
    pc[1] = "flush_clear" =>
        /\ Transfers(kind, written[1]) = ExpectedTransfers(kind, image_cache)
        /\ Coherent(kind, written[1])

\* Keys 2, 0, 2 with two different images for key 2 have been sent.
C6_Witness ==
    /\ pc[1] = "flush_clear"
    /\ Len(image_cache) = 3
    /\ image_cache[1].key = 2 /\ image_cache[2].key = 0 /\ image_cache[3].key = 2
    /\ image_cache[1].image_data # image_cache[3].image_data
    /\ Len(written[1]) > 3

(***************************************************************************)
(* C7: write_image writes no report; it only appends one entry at the tail *)
(* of the cache and leaves the entries before it as they were; the images  *)
(* it stages reach the transport in a flush only.                          *)
(***************************************************************************)
C7_WriteImageOnlyAppends ==
    [][/\ \A t \in Threads :
             Calls(t, "write_image") =>
                /\ Len(image_cache') = Len(image_cache) + 1
                /\ SubSeq(image_cache', 1, Len(image_cache)) = image_cache
                /\ written' = [written EXCEPT ![t] = <<>>]
                /\ pc'[t] = "idle" /\ ret'[t] = "Ok"
       /\ \A t \in Threads :
             \A i \in 1..Len(written'[t]) :
                written'[t][i].image \in CacheImages => op'[t] = "flush"
      ]_vars

\* write_image has queued a second image for a key that already had one.
C7_Witness ==
    /\ op[1] = "write_image" /\ pc[1] = "idle" /\ ret[1] = "Ok"
    /\ Len(image_cache) = 3
    /\ image_cache[1].key = image_cache[3].key
    /\ image_cache[1].image_data # image_cache[3].image_data

(***************************************************************************)
(* C8: clear_button_image and clear_all_button_images only stage the blank *)
(* image: they write no report.                                            *)
(***************************************************************************)
C8_ClearOnlyStages ==
    \A t \in Threads :
        op[t] \in {"clear_button_image", "clear_all_button_images"} => written[t] = <<>>

(***************************************************************************)
(* C9: flush drains and clears the cache atomically with respect to        *)
(* write_image on another thread: every entry a flush removes from the     *)
(* cache was transmitted by that flush.  Read at the step that clears the  *)
(* cache: the entries it removes are the first transfers of this flush.    *)
(***************************************************************************)
C9_FlushRemovesOnlySentEntries ==
    [][\A t \in Threads :
          (pc[t] = "flush_clear" /\ pc'[t] = "idle") =>
              LET sent == Transfers(kind, written[t])
              IN  /\ Len(image_cache) <= Len(sent)
                  /\ \A i \in 1..Len(image_cache) :
                        sent[i] = ExpectedTransfers(kind, image_cache)[i]
      ]_vars

(***************************************************************************)
(* C10: when read receives the same button-state snapshot on two           *)
(* consecutive reads, the second read returns no events; the same holds of *)
(* two identical consecutive encoder-state snapshots.                      *)
(***************************************************************************)
C10_DifferIdempotent ==
    [][(/\ reads' # reads
        /\ input.type \in {"ButtonStateChange", "EncoderStateChange"}
        /\ input' = input)
          => updates' = <<>>
      ]_vars

\* A snapshot with something pressed came twice in a row, and the second read returned nothing.
C10_Witness ==
    /\ input.type \in {"ButtonStateChange", "EncoderStateChange"}
    /\ \E i \in 1..Len(input.v) : input.v[i]
    /\ (IF input.type = "ButtonStateChange" THEN buttons ELSE encoders) = input.v
    /\ read_result = "Ok"
    /\ updates = <<>>

(***************************************************************************)
(* C11: for a button-state snapshot v and the stored vector s, read        *)
(* returns exactly one event per index i with v[i] # s[i], in ascending    *)
(* index order, and no other event: ButtonDown(i) / ButtonUp(i) when       *)
(* i < key_count, TouchPointDown(i - key_count) / TouchPointUp(i -         *)
(* key_count) otherwise, Down iff v[i].  The indices are those both        *)
(* vectors have.                                                           *)
(***************************************************************************)
\* The index (0-based) an event of a button snapshot speaks of.
EventIndex(kc, e) == IF e[1] \in {"ButtonDown", "ButtonUp"} THEN e[2] ELSE e[2] + kc

ChangedIndices(v, s) ==
    {i \in 0..(Len(v) - 1) : i < Len(s) /\ v[i + 1] # s[i + 1]}

ButtonEventsExact(kc, v, s, events) ==
    /\ Len(events) = Cardinality(ChangedIndices(v, s))
    /\ \A n \in 1..Len(events) :
          LET e == events[n]
              i == EventIndex(kc, e)
          IN  /\ i \in ChangedIndices(v, s)
              /\ e[1] = (IF i < kc
                         THEN (IF v[i + 1] THEN "ButtonDown" ELSE "ButtonUp")
                         ELSE (IF v[i + 1] THEN "TouchPointDown" ELSE "TouchPointUp"))
              /\ e[2] >= 0
              /\ n > 1 => EventIndex(kc, events[n - 1]) < i

C11_ButtonEventsPerChangedIndex ==
    [][(reads' # reads /\ input'.type = "ButtonStateChange")
          => ButtonEventsExact(key_count(kind), input'.v, buttons, updates')
      ]_vars

\* One read reported a key going up, another going down and a touch point going down.
C11_Witness ==
    /\ input.type = "ButtonStateChange"
    /\ Len(updates) >= 3
    /\ \E n \in 1..Len(updates) : updates[n][1] = "ButtonUp"
    /\ \E n \in 1..Len(updates) : updates[n][1] = "ButtonDown"
    /\ updates[Len(updates)] = <<"TouchPointDown", 0>>

(***************************************************************************)
(* C12: write_lcd on a kind other than Plus, and write_lcd_fill on a kind  *)
(* other than Neo and Plus, return UnsupportedOperation at once, write no  *)
(* report and leave the image cache as it was.                             *)
(***************************************************************************)
RejectedUnsupported(t) ==
    /\ pc'[t] = "idle"
    /\ ret'[t] = "UnsupportedOperation"
    /\ written'[t] = <<>>
    /\ image_cache' = image_cache

C12_ScreenOpsUnsupported ==
    [][\A t \in Threads :
          /\ (Calls(t, "write_lcd") /\ kind # "Plus") => RejectedUnsupported(t)
          /\ (Calls(t, "write_lcd_fill") /\ kind \notin {"Neo", "Plus"})
                => RejectedUnsupported(t)
      ]_vars

\* write_lcd was refused on a Neo while two key images were staged.
C12_Witness ==
    /\ kind = "Neo"
    /\ op[1] = "write_lcd"
    /\ pc[1] = "idle"
    /\ ret[1] = "UnsupportedOperation"
    /\ Len(image_cache) = 2

(***************************************************************************)
(* C13: for every percent in 0..255 the brightness byte of the feature     *)
(* report set_brightness sends is min(percent, 100), in the legacy layout  *)
(* (17 bytes, byte 5) and in the modern one (32 bytes, byte 2).            *)
(***************************************************************************)
BrightnessByte(report) == IF Len(report) = 17 THEN report[6] ELSE report[3]

C13_BrightnessClamped ==
    feature.result # "none" =>
        /\ Len(feature.report) = (IF kind \in {"Original", "Mini", "MiniMk2", "MiniMk2Module"}
                                  THEN 17 ELSE 32)
        /\ BrightnessByte(feature.report) = Min(feature.percent, 100)

\* A modern-layout report carried 100 for a percent of 255.
C13_Witness ==
    /\ feature.result = "Ok"
    /\ feature.percent = 255
    /\ kind = "Plus"
    /\ feature.report[3] = 100

(***************************************************************************)
(* C14: a read whose transport read timed out (an all-zero buffer, decoded *)
(* as NoData) or failed, or whose report was rejected as BadData, returns  *)
(* no event and leaves the stored button and encoder vectors as they were. *)
(***************************************************************************)
\* A read whose transport read timed out: the buffer comes back all zero.
TimedOutRead == read(Zeros(input_report_length(kind)))

C14_FailedReadKeepsState ==
    [][(/\ reads' # reads
        /\ \/ read_result' \in {"HidError", "BadData"}
           \/ TimedOutRead)
          => /\ updates' = <<>>
             /\ buttons' = buttons
             /\ encoders' = encoders
      ]_vars

\* A report was rejected as BadData while a key and an encoder were held.
C14_Witness ==
    /\ read_result = "BadData"
    /\ updates = <<>>
    /\ \E i \in DOMAIN buttons : buttons[i]
    /\ \E i \in DOMAIN encoders : encoders[i]

(***************************************************************************)
(* C18: the stored state changes only on snapshots.  A read that decodes   *)
(* NoData, EncoderTwist or a TouchScreen event leaves both vectors as they *)
(* were; a button snapshot replaces the button vector by the snapshot and  *)
(* leaves the encoder vector; an encoder snapshot replaces the encoder     *)
(* vector and leaves the button vector; the replacement is made whether or *)
(* not an event fired.                                                     *)
(***************************************************************************)
C18_OnlySnapshotsReplaceState ==
    [][(reads' # reads /\ read_result' = "Ok")
          => /\ input'.type = "ButtonStateChange"
                   => buttons' = input'.v /\ encoders' = encoders
             /\ input'.type = "EncoderStateChange"
                   => encoders' = input'.v /\ buttons' = buttons
             /\ input'.type \notin {"ButtonStateChange", "EncoderStateChange"}
                   => buttons' = buttons /\ encoders' = encoders
      ]_vars

\* An encoder was twisted while a key and an encoder were held.
C18_Witness ==
    /\ input.type = "EncoderTwist"
    /\ updates # <<>>
    /\ \E i \in DOMAIN buttons : buttons[i]
    /\ \E i \in DOMAIN encoders : encoders[i]

(***************************************************************************)
(* C19: in every state of the reader the stored button vector has length   *)
(* key_count + touchpoint_count and the stored encoder vector has length   *)
(* encoder_count.                                                          *)
(***************************************************************************)
C19_StoredLengths ==
    /\ Len(buttons) = key_count(kind) + touchpoint_count(kind)
    /\ Len(encoders) = encoder_count(kind)

(***************************************************************************)
(* C15: for every kind and every payload length N >= 0 the chunk loop ends *)
(* after finitely many report writes: every pass that writes a report      *)
(* takes at least one byte off the bytes that remain, and a payload of     *)
(* N = 0 bytes writes no report.                                           *)
(***************************************************************************)
C15_ChunkLoopTerminates ==
    [][\A t \in Threads :
          (pc[t] = "xfer" /\ written'[t] # written[t])
             => /\ xfer[t].image.len > 0
                /\ xfer'[t].bytes_remaining < xfer[t].bytes_remaining
      ]_vars

(***************************************************************************)
(* C16: when a send fails partway through flush, flush returns that error  *)
(* and the cache is what it was before the flush; a flush called again     *)
(* starts over from the first entry.                                       *)
(***************************************************************************)
InFlushBeforeClear(t) ==
    op[t] = "flush" /\ pc[t] \in {"flush_lock", "flush_iter", "xfer"}

C16_FailedFlushKeepsCache ==
    [][\A t \in Threads :
          /\ InFlushBeforeClear(t) => image_cache' = image_cache
          /\ (op[t] = "flush" /\ pc[t] = "xfer" /\ pc'[t] = "idle")
                => ret'[t] = "HidError"
          /\ (Calls(t, "flush") /\ image_cache # <<>>) => pc'[t] = "flush_lock"
          /\ pc[t] = "flush_lock" => pc'[t] = "flush_iter" /\ idx'[t] = 1
      ]_vars

\* A flush of three entries failed after the first entry had been sent whole.
C16_Witness ==
    /\ op[1] = "flush"
    /\ pc[1] = "idle"
    /\ ret[1] = "HidError"
    /\ Len(image_cache) = 3
    /\ Len(written[1]) >= 2
    /\ written[1][1].image # written[1][Len(written[1])].image

(***************************************************************************)
(* C17: with no other thread enqueuing, the cache is empty when flush      *)
(* returns success; flush on an empty cache writes no report and returns   *)
(* success.                                                                *)
(***************************************************************************)
C17_FlushEmptiesCache ==
    [][\A t \in Threads :
          /\ (Calls(t, "flush") /\ image_cache = <<>>)
                => /\ pc'[t] = "idle"
                   /\ ret'[t] = "Ok"
                   /\ written'[t] = <<>>
                   /\ image_cache' = <<>>
          /\ (op[t] = "flush" /\ pc[t] # "idle" /\ pc'[t] = "idle" /\ ret'[t] = "Ok")
                => image_cache' = <<>>
      ]_vars

\* A flush that sent three entries has returned success.
C17_Witness ==
    /\ op[1] = "flush"
    /\ pc[1] = "idle"
    /\ ret[1] = "Ok"
    /\ image_cache = <<>>
    /\ Len(written[1]) >= 3

(***************************************************************************)
(* C20: every report written has length exactly L (8191 for a key image on *)
(* the Original, 1024 otherwise), made of the header, the payload slice    *)
(* and zero padding, and building a report never aborts because header and *)
(* slice are longer than L.                                                *)
(***************************************************************************)
C20_ReportsHaveFixedLength ==
    \A t \in Threads :
        /\ pc[t] # "panicked"
        /\ pc[t] = "xfer" =>
              \A n \in 1..Len(written[t]) :
                  LET r == written[t][n]
                  IN  /\ r.pad >= 0
                      /\ Len(r.header) + r.len + r.pad = WireReportLen(kind, xfer[t].hdr)

(***************************************************************************)
(* C21: the header of the k-th report (k from 0) of a key image transfer   *)
(* is, byte for byte: on the Original 0x02, 0x01, k+1, 0, lastFlag, key+1  *)
(* and 10 zero bytes, key being the mirrored index; on the Mini family     *)
(* 0x02, 0x01, k, 0, lastFlag, key+1 and 10 zero bytes; elsewhere 0x02,    *)
(* 0x07, key, lastFlag, lenLo, lenHi, pageLo, pageHi with len the chunk's  *)
(* payload length and page = k, little-endian.  The one-byte page fields   *)
(* hold k+1 and k modulo 256 and the two-byte fields hold their value      *)
(* modulo 65536; pages follow one another with no gap; the key is mirrored *)
(* on the Original only.                                                   *)
(***************************************************************************)
WireKeyHeader(k, key, page, len, last, pad) ==
    CASE k = "Original" ->
            <<2, 1, (page + 1) % 256, 0, Flag(last), WireKey(k, key) + 1>> \o Zeros(pad)
      [] IsLegacySmall(k) ->
            <<2, 1, page % 256, 0, Flag(last), key + 1>> \o Zeros(pad)
      [] OTHER ->
            <<2, 7, key, Flag(last), len % 256, (len \div 256) % 256,
              page % 256, (page \div 256) % 256>>

\* The same with the page fields holding the page number itself.
TableKeyHeader(k, key, page, len, last, pad) ==
    CASE k = "Original" -> <<2, 1, page + 1, 0, Flag(last), WireKey(k, key) + 1>> \o Zeros(pad)
      [] IsLegacySmall(k) -> <<2, 1, page, 0, Flag(last), key + 1>> \o Zeros(pad)
      [] OTHER ->
            <<2, 7, key, Flag(last), len % 256, (len \div 256) % 256,
              page % 256, page \div 256>>

\* The key image flush is sending, as write_image was given it.
KeyBeingSent(t) == image_cache[idx[t]].key

SendingKeyImage(t) == pc[t] = "xfer" /\ op[t] = "flush" /\ xfer[t].hdr = "key"

C21_KeyHeadersBitExact ==
    /\ header_call # NoHeaderCall =>
          header_call.header =
             WireKeyHeader(kind, header_call.key, header_call.page_number,
                           header_call.this_length, header_call.last_package, 10)
    /\ \A t \in Threads :
          SendingKeyImage(t) =>
             \A n \in 1..Len(written[t]) :
                LET r == written[t][n]
                IN  r.header = WireKeyHeader(kind, KeyBeingSent(t), n - 1, r.len,
                                             r.from + r.len = r.image.len, 10)

\* The statement with 9 pad bytes and the page number written as it is.
C21_KeyHeadersPerTable ==
    /\ header_call # NoHeaderCall =>
          header_call.header =
             TableKeyHeader(kind, header_call.key, header_call.page_number,
                            header_call.this_length, header_call.last_package, 9)
    /\ \A t \in Threads :
          SendingKeyImage(t) =>
             \A n \in 1..Len(written[t]) :
                LET r == written[t][n]
                IN  r.header = TableKeyHeader(kind, KeyBeingSent(t), n - 1, r.len,
                                              r.from + r.len = r.image.len, 9)

\* The third report of an image for key 0 of the Original has been written,
\* with the mirrored key 4 in its header.
C21_Witness ==
    /\ kind = "Original"
    /\ SendingKeyImage(1)
    /\ KeyBeingSent(1) = 0
    /\ Len(written[1]) = 3
    /\ written[1][3].header[3] = 3
    /\ written[1][3].header[6] = 5

(***************************************************************************)
(* C22: when every button snapshot has length key_count +                  *)
(* touchpoint_count, the events reported for one index, over the reads of  *)
(* all threads taken in the order they lock the state, alternate Down, Up, *)
(* Down, ... starting with Down: a Down is reported only for an index      *)
(* whose last event was not a Down, an Up only for an index whose last     *)
(* event was a Down, and one read reports an index at most once.  The same *)
(* holds per encoder for EncoderDown / EncoderUp.                          *)
(***************************************************************************)
FullLength(v) == Len(v) = key_count(kind) + touchpoint_count(kind)

\* The index of the stored vector an event names: a touch point comes after the keys.
IndexNamed(e) ==
    IF e[1] \in {"TouchPointDown", "TouchPointUp"} THEN key_count(kind) + e[2] ELSE e[2]

AlternatesWith(events, held, downs, ups) ==
    \A n \in 1..Len(events) :
        LET e == events[n]
        IN  /\ e[1] \in downs \cup ups
            /\ e[1] \in downs => IndexNamed(e) \notin held
            /\ e[1] \in ups => IndexNamed(e) \in held
            /\ \A m \in 1..Len(events) : m # n => IndexNamed(events[m]) # IndexNamed(e)

C22_EventsAlternatePerIndex ==
    [][(reads' # reads /\ read_result' = "Ok")
          => /\ (/\ input'.type = "ButtonStateChange"
                 /\ FullLength(input'.v)
                 /\ FullLength(buttons))
                   => AlternatesWith(updates', held_buttons,
                                     {"ButtonDown", "TouchPointDown"},
                                     {"ButtonUp", "TouchPointUp"})
             /\ input'.type = "EncoderStateChange"
                   => AlternatesWith(updates', held_encoders,
                                     {"EncoderDown"}, {"EncoderUp"})
      ]_vars

\* On a Neo a thread reported key 0 going up while the touch point stayed down
\* and the other thread held an input it had not compared yet.
C22_Witness ==
    /\ kind = "Neo"
    /\ updates = << <<"ButtonUp", 0>> >>
    /\ held_buttons = {8}
    /\ pending[1] # NoInput \/ pending[2] # NoInput

(***************************************************************************)
(* C23: in a sequence of write_image and flush calls made one after the    *)
(* other, once the cache holds an entry send_image rejects (its key is not *)
(* below key_count, or the kind has no screen) the cache never shrinks and *)
(* no flush returns success: a flush the transport does not fail sends the *)
(* entries ahead of the first rejected entry again, stops there with that  *)
(* entry's error, and no flush gets past it to the entries behind.         *)
(***************************************************************************)
Rejected(e) == e.key >= key_count(kind) \/ ~is_visual(kind)

RejectionOf(e) == IF e.key >= key_count(kind) THEN "InvalidKeyIndex" ELSE "NoScreen"

Wedged == \E i \in 1..Len(image_cache) : Rejected(image_cache[i])

FirstRejected ==
    CHOOSE i \in 1..Len(image_cache) :
        Rejected(image_cache[i]) /\ \A j \in 1..(i - 1) : ~Rejected(image_cache[j])

FlushReturns(t) == op[t] = "flush" /\ pc[t] # "idle" /\ pc'[t] = "idle"

C23_RejectedEntryWedgesFlush ==
    [][Wedged =>
          /\ Len(image_cache') >= Len(image_cache)
          /\ SubSeq(image_cache', 1, Len(image_cache)) = image_cache
          /\ op'[1] = "flush" => idx'[1] <= FirstRejected
          /\ FlushReturns(1) =>
                /\ ret'[1] # "Ok"
                /\ ret'[1] # "HidError" =>
                      /\ ret'[1] = RejectionOf(image_cache[FirstRejected])
                      /\ idx[1] = FirstRejected
                      /\ Coherent(kind, written'[1])
                      /\ Transfers(kind, written'[1]) =
                            ExpectedTransfers(kind,
                                              SubSeq(image_cache, 1, FirstRejected - 1))
      ]_vars

\* A flush has sent the first entry and stopped at the second, whose key is
\* out of range; the third entry stays behind it.
C23_Witness ==
    /\ op[1] = "flush"
    /\ pc[1] = "idle"
    /\ ret[1] = "InvalidKeyIndex"
    /\ Len(image_cache) = 3
    /\ ~Rejected(image_cache[1])
    /\ Rejected(image_cache[2])
    /\ ~Rejected(image_cache[3])
    /\ Len(written[1]) = 2

====
